---------------------------- MODULE Spec2Model ----------------------------
(***************************************************************************)
(* Document rectification pipeline of CLR5_CV_Applications                 *)
(* (DocumentScannerApplication) and the corner ordering it shares with     *)
(* CLR4_3D_Motion_Analysis (ThreeDimensionalMotionAnalyzer).               *)
(*                                                                         *)
(* Rasters are modelled by their dimensions [w, h]; points by <<x, y>>.    *)
(* A contour returned by cv2.findContours is modelled by what step 3 reads *)
(* of it: its cv2.contourArea (the sort key) and the polygon that          *)
(* cv2.approxPolyDP makes of it.                                           *)
(*                                                                         *)
(* A float distance np.linalg.norm(a - b) is carried as its exact square;  *)
(* max() of two distances compares the squares and int() of a distance is  *)
(* the integer square root.  For the integer pixel coordinates the         *)
(* pipeline works on, a non-integral square root is further from an        *)
(* integer than the float32 rounding error, so the floor is exact.         *)
(***************************************************************************)
EXTENDS Integers, Sequences, FiniteSets, TLC

VARIABLES
    scanner,    \* the DocumentScannerApplication object (its fields)
    contours,   \* what cv2.findContours yields on this image's edge map
    pc,         \* position of the caller: idle, inside scan_document, ...
    ret,        \* value returned by the last completed method call
    calls,      \* direct calls of a Corner Orderer: <<[fn, arg, ret], ...>>
    batch,      \* a run of batch_scan_documents: its directory and locals
    analyzer,   \* the ThreeDimensionalMotionAnalyzer object (its fields)
    results     \* the results dictionary of test_all_modules

vars == <<scanner, contours, pc, ret, calls, batch, analyzer, results>>

\* Largest width and height of the enumerated small images.
MaxDim == 3

\* Python's None: a value with none of the fields of a raster or a matrix.
None == [none |-> TRUE]
NoError == "none"

---------------------------------------------------------------------------
(* numpy helpers *)

Max(a, b) == IF a >= b THEN a ELSE b

Abs(a) == IF a < 0 THEN -a ELSE a

\* np.linalg.norm(p - q), squared.
NormSq(p, q) == (p[1] - q[1]) * (p[1] - q[1]) + (p[2] - q[2]) * (p[2] - q[2])

\* Bisection for the r with r * r <= n < (r + 1) * (r + 1), kept between
\* lo (lo * lo <= n) and hi (n < hi * hi).
RECURSIVE IntSqrtBetween(_, _, _)
IntSqrtBetween(n, lo, hi) ==
    IF hi - lo <= 1 THEN lo
    ELSE LET mid == (lo + hi) \div 2
         IN  IF mid * mid <= n THEN IntSqrtBetween(n, mid, hi)
             ELSE IntSqrtBetween(n, lo, mid)

\* A power of two hi with n < hi * hi.
RECURSIVE IntSqrtAbove(_, _)
IntSqrtAbove(n, hi) == IF hi * hi > n THEN hi ELSE IntSqrtAbove(n, 2 * hi)

\* int(sqrt(n)) for n >= 0.
IntSqrt(n) == IntSqrtBetween(n, 0, IntSqrtAbove(n, 1))

RECURSIVE ArgMinFrom(_, _, _)
ArgMinFrom(v, i, best) ==
    IF i > Len(v) THEN best
    ELSE ArgMinFrom(v, i + 1, IF v[i] < v[best] THEN i ELSE best)

\* Mutant: the last occurrence of the minimum.
RECURSIVE ArgMinLastFrom(_, _, _)
ArgMinLastFrom(v, i, best) ==
    IF i > Len(v) THEN best
    ELSE ArgMinLastFrom(v, i + 1, IF v[i] <= v[best] THEN i ELSE best)

ArgMinLast(v) == ArgMinLastFrom(v, 2, 1)

\* Mutant: the 0-based index of the minimum read as a 1-based one.
ArgMinOffByOne(v) == (ArgMinFrom(v, 2, 1) % Len(v)) + 1

\* np.argmin: index of the first occurrence of the minimum.
ArgMin(v) == ArgMinFrom(v, 2, 1)

RECURSIVE ArgMaxFrom(_, _, _)
ArgMaxFrom(v, i, best) ==
    IF i > Len(v) THEN best
    ELSE ArgMaxFrom(v, i + 1, IF v[i] > v[best] THEN i ELSE best)

\* Mutant: the 0-based index of the maximum read as a 1-based one.
ArgMaxOffByOne(v) == (ArgMaxFrom(v, 2, 1) % Len(v)) + 1

\* np.argmax: index of the first occurrence of the maximum.
ArgMax(v) == ArgMaxFrom(v, 2, 1)

\* Mutant: the sum taken over x alone.
SumX(pts) == [i \in 1..Len(pts) |-> pts[i][1]]

\* pts.sum(axis=1): x + y of each point.
SumXY(pts) == [i \in 1..Len(pts) |-> pts[i][1] + pts[i][2]]

\* Mutant: the difference taken as x - y.
DiffXY(pts) == [i \in 1..Len(pts) |-> pts[i][1] - pts[i][2]]

\* np.diff(pts, axis=1): y - x of each point.
DiffYX(pts) == [i \in 1..Len(pts) |-> pts[i][2] - pts[i][1]]

---------------------------------------------------------------------------
(* OpenCV calls, by their documented behaviour *)

\* cv::Size::empty(): width <= 0 or height <= 0.
SizeEmpty(size) == size.w <= 0 \/ size.h <= 0

\* cv2.resize(src, dsize) with fx = fy = 0: an empty dsize fails the
\* assertion on the scale factors and raises cv2.error.
cv2_resize(src, dsize) ==
    IF SizeEmpty(dsize) THEN [error |-> "cv2.error", raster |-> None]
    ELSE [error |-> NoError, raster |-> dsize]

\* Twice cv2.contourArea(poly): the absolute value of the shoelace sum.
RECURSIVE ShoelaceFrom(_, _)
ShoelaceFrom(poly, i) ==
    IF i > Len(poly) THEN 0
    ELSE LET p == poly[i]
             q == poly[(i % Len(poly)) + 1]
         IN  p[1] * q[2] - q[1] * p[2] + ShoelaceFrom(poly, i + 1)

contourArea2(poly) == Abs(ShoelaceFrom(poly, 1))

Collinear(p, q, r) ==
    (q[1] - p[1]) * (r[2] - p[2]) - (q[2] - p[2]) * (r[1] - p[1]) = 0

\* Four points no projective map can send to four points in general
\* position: three of them on one line (two coincident included).
Degenerate(pts) ==
    \E i, j, k \in 1..4 : i < j /\ j < k /\ Collinear(pts[i], pts[j], pts[k])

\* All four points on one line.
AllCollinear(pts) ==
    \A i, j, k \in 1..4 : Collinear(pts[i], pts[j], pts[k])

\* The line through points p and q, and the point two lines meet in, in
\* homogeneous coordinates.
LineThrough(p, q) == <<p[2] - q[2], q[1] - p[1], p[1] * q[2] - q[1] * p[2]>>

Meet(l, m) ==
    <<l[2] * m[3] - l[3] * m[2], l[3] * m[1] - l[1] * m[3], l[1] * m[2] - l[2] * m[1]>>

RECURSIVE Gcd(_, _)
Gcd(a, b) == IF b = 0 THEN a ELSE Gcd(b, a % b)

\* a * d = b * c, by the directions of <<a, b>> and <<c, d>> in lowest
\* terms (the products exceed the integer range for large images).
Proportional(a, b, c, d) ==
    IF (a = 0 /\ b = 0) \/ (c = 0 /\ d = 0) THEN TRUE
    ELSE LET g == Gcd(Abs(a), Abs(b))
             h == Gcd(Abs(c), Abs(d))
         IN  \/ a \div g = c \div h /\ b \div g = d \div h
             \/ a \div g = -(c \div h) /\ b \div g = -(d \div h)

\* The projective map of src (no three points on a line) onto a rectangle
\* TL, TR, BR, BL sends the pixel (0, 0) to infinity: (0, 0) is on the line
\* through the points where the opposite sides of src meet.  The map then
\* has no matrix with M[2][2] = 1.
OriginAtInfinity(src) ==
    LET P == Meet(LineThrough(src[1], src[2]), LineThrough(src[4], src[3]))
        Q == Meet(LineThrough(src[1], src[4]), LineThrough(src[2], src[3]))
    IN  Proportional(P[1], P[2], Q[1], Q[2])

\* What cv::solve(A, B, X, DECOMP_LU) leaves in the matrix for the 8
\* equations of the correspondences src[i] -> dst[i] (dst a rectangle
\* TL, TR, BR, BL), with M[2][2] set to 1 afterwards:
\*   "exact"    the system has one solution, the projective map of src
\*              onto dst;
\*   "zero"     dst has a side of no length (all its x or all its y are
\*              0): 4 of the equations have only 3 unknowns left, the LU
\*              decomposition meets a pivot that is exactly 0 and
\*              cv::solve fills X with zeros;
\*   "singular" the system has no solution: X is zero-filled or of
\*              rounding-error scale, by whether the pivot rounds to 0;
\*   "degenerate" src has three points on a line.
Solution(src, dst) ==
    IF Degenerate(src) THEN "degenerate"
    ELSE IF Degenerate(dst) THEN "zero"
    ELSE IF OriginAtInfinity(src) THEN "singular"
    ELSE "exact"

\* cv2.getPerspectiveTransform(src, dst): solves the 8x8 system by LU
\* decomposition and returns a 3x3 matrix whatever the points are; on a
\* singular system the solution is zero-filled, no exception is raised.
\* The matrix is carried by the correspondences it was solved from.
getPerspectiveTransform(src, dst) ==
    [src |-> src, dst |-> dst,
     degenerate |-> Degenerate(src) \/ Degenerate(dst),
     solution |-> Solution(src, dst)]

\* The point M maps src[i] to: dst[i] for the solution of the system, the
\* pixel (0, 0) for the zero-filled matrix (its last row is 0 0 1).
CornerImage(M, i) ==
    IF M.solution = "exact" THEN M.dst[i]
    ELSE IF M.solution = "zero" THEN <<0, 0>>
    ELSE "unspecified"

\* cv2.warpPerspective(src, M, dsize): the destination is created with
\* size (dsize.empty() ? src.size() : dsize); a singular M is inverted to
\* the zero matrix, nothing is raised.
warpPerspective(src, M, dsize) ==
    IF SizeEmpty(dsize) THEN [w |-> src.w, h |-> src.h]
    ELSE [w |-> dsize.w, h |-> dsize.h]

---------------------------------------------------------------------------
(* DocumentScannerApplication *)

max_dimension == 1000

TopN == 10

\* Values m of max(height, width) among the sampled large images for which
\* the binary64 product d * (1000 / m) falls just below the integer
\* d * 1000 / m (1062 * (1000 / 1062) = 999.9999999999999).
RoundsBelow == {1062}

\* int(d * scale) with scale = max_dimension / m in binary64.
ScaleDim(d, m) ==
    LET q == (d * max_dimension) \div m
    IN  IF (d * max_dimension) % m = 0 /\ m \in RoundsBelow THEN q - 1 ELSE q

\* __init__ on a loadable image: every pipeline field starts as None.
NewScanner(img) ==
    [original |-> img, image |-> img,
     preprocessed |-> None, edges |-> None, document_contour |-> None,
     warped |-> None, enhanced |-> None, corners |-> None,
     M |-> None, dsize |-> None, warped_from |-> None, error |-> NoError]

step1_preprocess(s) ==
    LET width  == s.original.w
        height == s.original.h
        m      == Max(height, width)
    IN  IF m > max_dimension
        THEN LET r == cv2_resize(s.original,
                                 [w |-> ScaleDim(width, m), h |-> ScaleDim(height, m)])
             IN  IF r.error # NoError
                 THEN [s EXCEPT !.error = r.error]
                 ELSE [s EXCEPT !.image = r.raster, !.preprocessed = r.raster]
        ELSE [s EXCEPT !.image = s.original, !.preprocessed = s.original]

\* Body of step2_detect_edges, once self.preprocessed is set.
Step2Body(s1) ==
    IF s1.error # NoError THEN s1
    ELSE [s1 EXCEPT !.edges = s1.preprocessed]

step2_detect_edges(s) ==
    Step2Body(IF s.preprocessed = None THEN step1_preprocess(s) ELSE s)

\* Position at which sorted(.., reverse=True) places c: after every entry
\* of at least its area (the sort is stable).
RECURSIVE InsertByArea(_, _)
InsertByArea(c, sorted) ==
    IF sorted = <<>> THEN <<c>>
    ELSE IF Head(sorted).area >= c.area
         THEN <<Head(sorted)>> \o InsertByArea(c, Tail(sorted))
         ELSE <<c>> \o sorted

RECURSIVE SortByArea(_)
SortByArea(cs) ==
    IF cs = <<>> THEN <<>>
    ELSE InsertByArea(cs[Len(cs)], SortByArea(SubSeq(cs, 1, Len(cs) - 1)))

\* area > img_area * 0.1 for approx a polygon of integer vertices: area is
\* a multiple of 1/2, and img_area * 0.1 in binary64 is exactly
\* img_area / 10 whenever that is a multiple of 1/2.
Accepts(approx, image) ==
    /\ Len(approx) = 4
    /\ 5 * contourArea2(approx) > image.w * image.h

\* The for loop over contours[:10]: the first accepted polygon, or the
\* value document_contour had before the loop.
RECURSIVE FirstAccepted(_, _, _, _)
FirstAccepted(top, i, image, before) ==
    IF i > Len(top) THEN before
    ELSE IF Accepts(top[i].approx, image) THEN top[i].approx
         ELSE FirstAccepted(top, i + 1, image, before)

\* Mutant: no reshape(4, 2), so a contour of any length is ordered.
OrderWithoutReshape(contour) ==
    <<contour[ArgMin(SumXY(contour))], contour[ArgMin(DiffYX(contour))],
      contour[ArgMax(SumXY(contour))], contour[ArgMax(DiffYX(contour))]>>

\* contour.reshape(4, 2) raises ValueError unless the contour has 4 points.
_order_corners(contour) ==
    IF Len(contour) # 4 THEN "ValueError"
    ELSE LET pts  == contour
             s    == SumXY(pts)
             diff == DiffYX(pts)
         IN  <<pts[ArgMin(s)], pts[ArgMin(diff)], pts[ArgMax(s)], pts[ArgMax(diff)]>>

\* Mutant: the image corners in TL, BL, BR, TR order.
FallbackCornersSwapped(image) ==
    <<<<0, 0>>, <<0, image.h - 1>>, <<image.w - 1, image.h - 1>>, <<image.w - 1, 0>>>>

FallbackCorners(image) ==
    <<<<0, 0>>, <<image.w - 1, 0>>, <<image.w - 1, image.h - 1>>, <<0, image.h - 1>>>>

\* Mutant: the simplified polygon is kept as the corners, unordered.
Step3ResultUnordered(s1, doc) ==
    IF doc # None
    THEN [s1 EXCEPT !.document_contour = doc, !.corners = doc]
    ELSE [s1 EXCEPT !.corners = FallbackCorners(s1.image)]

\* if self.document_contour is not None: order its corners; else: the
\* corners of the working image.
Step3Result(s1, doc) ==
    IF doc # None
    THEN IF _order_corners(doc) = "ValueError"
         THEN [s1 EXCEPT !.document_contour = doc, !.error = "ValueError"]
         ELSE [s1 EXCEPT !.document_contour = doc, !.corners = _order_corners(doc)]
    ELSE [s1 EXCEPT !.corners = FallbackCorners(s1.image)]

\* Mutant: every contour is examined.
TopContoursUncapped(found) == SortByArea(found)

\* contours[:10] of the contours sorted by area, largest first.
TopContours(found) ==
    SubSeq(SortByArea(found), 1, IF Len(found) < TopN THEN Len(found) ELSE TopN)

\* Body of step3_find_document_contour, once self.edges is set.
Step3Body(s1, found) ==
    IF s1.error # NoError THEN s1
    ELSE Step3Result(s1, FirstAccepted(TopContours(found), 1, s1.image,
                                       s1.document_contour))

\* Mutant: no call of step 2 when self.edges is None.
Step3WithoutPrerequisite(s, found) == Step3Body(s, found)

step3_find_document_contour(s, found) ==
    Step3Body(IF s.edges = None THEN step2_detect_edges(s) ELSE s, found)

\* Mutant: the shorter of the two edges.
IntMinNorm(a, b, c, d) ==
    IntSqrt(IF NormSq(a, b) <= NormSq(c, d) THEN NormSq(a, b) ELSE NormSq(c, d))

\* int(max(norm(a - b), norm(c - d))).
IntMaxNorm(a, b, c, d) == IntSqrt(Max(NormSq(a, b), NormSq(c, d)))

max_width(corners) == IntMaxNorm(corners[1], corners[2], corners[3], corners[4])

max_height(corners) == IntMaxNorm(corners[1], corners[4], corners[2], corners[3])

dst_points(W, H) == <<<<0, 0>>, <<W - 1, 0>>, <<W - 1, H - 1>>, <<0, H - 1>>>>

\* Mutant: the original image is warped, not the working image.
Step4WarpOriginal(s1, M, size) ==
    [s1 EXCEPT !.M = M, !.dsize = size, !.warped_from = s1.original,
               !.warped = warpPerspective(s1.original, M, size)]

\* M = cv2.getPerspectiveTransform(self.corners, dst_points);
\* self.warped = cv2.warpPerspective(self.image, M, (max_width, max_height)).
\* warped_from keeps the raster that was warped.
Step4Warp(s1, M, size) ==
    [s1 EXCEPT !.M = M, !.dsize = size, !.warped_from = s1.image,
               !.warped = warpPerspective(s1.image, M, size)]

\* Body of step4_apply_perspective_transform, once self.corners is set.
Step4Body(s1) ==
    IF s1.error # NoError THEN s1
    ELSE Step4Warp(s1,
                   getPerspectiveTransform(
                       s1.corners,
                       dst_points(max_width(s1.corners), max_height(s1.corners))),
                   [w |-> max_width(s1.corners), h |-> max_height(s1.corners)])

step4_apply_perspective_transform(s, found) ==
    Step4Body(IF s.corners = None THEN step3_find_document_contour(s, found) ELSE s)

\* Mutant: the working image is enhanced and stored as the warped raster.
Step5BodyRewarps(s1) ==
    IF s1.error # NoError THEN s1
    ELSE [s1 EXCEPT !.warped = s1.image, !.enhanced = s1.image]

\* Body of step5_enhance_output, once self.warped is set.
Step5Body(s1) ==
    IF s1.error # NoError THEN s1
    ELSE [s1 EXCEPT !.enhanced = s1.warped]

step5_enhance_output(s, found) ==
    Step5Body(IF s.warped = None THEN step4_apply_perspective_transform(s, found) ELSE s)

---------------------------------------------------------------------------
(* Inputs: images and the contours their edge maps yield *)

SmallImages == {[w |-> a, h |-> b] : a, b \in 1..MaxDim}

\* Sampled images with a side over max_dimension: halved exactly, scaled
\* with a product that rounds below, and too thin to survive the scaling.
LargeImages ==
    {[w |-> 2000, h |-> 1000], [w |-> 1062, h |-> 531],
     [w |-> 1, h |-> 1001], [w |-> 1001, h |-> 1]}

\* The image of the end-to-end scenario: 1000 pixels wide, 800 high.
ScenarioImage == [w |-> 1000, h |-> 800]

Images == SmallImages \cup LargeImages \cup {ScenarioImage}

\* The image step 1 makes the working image (the original when the resize
\* raises).
WorkingImage(img) == step1_preprocess(NewScanner(img)).image

\* Pixel coordinates polygons are enumerated over: the first, the middle
\* and the last of a small image (all of them up to 3 pixels); the first
\* two and the last of a large image.
Coords(n) == IF n <= MaxDim THEN {0, n \div 2, n - 1} ELSE {0, 1, n - 1}

Pts(img) == Coords(img.w) \X Coords(img.h)

Distinct(poly) == \A i, j \in 1..Len(poly) : i # j => poly[i] # poly[j]

Sign(x) == IF x > 0 THEN 1 ELSE IF x < 0 THEN -1 ELSE 0

\* Sign of the turn p -> q -> r.
Orient(p, q, r) ==
    Sign((q[1] - p[1]) * (r[2] - p[2]) - (q[2] - p[2]) * (r[1] - p[1]))

\* Segments ab and cd cross.
Crossing(a, b, c, d) ==
    /\ Orient(a, b, c) * Orient(a, b, d) < 0
    /\ Orient(c, d, a) * Orient(c, d, b) < 0

\* A quadrilateral as cv2.approxPolyDP makes it of a traced boundary: its
\* vertices are vertices of the contour in contour order, no vertex lies
\* on the line through its neighbours and no two edges cross.
SimpleQuad(q) ==
    /\ Distinct(q)
    /\ ~Degenerate(q)
    /\ ~Crossing(q[1], q[2], q[3], q[4])
    /\ ~Crossing(q[2], q[3], q[4], q[1])

Quads(img) == {q \in Pts(img) \X Pts(img) \X Pts(img) \X Pts(img) : SimpleQuad(q)}

Triangles(img) ==
    {t \in {<<0, 0>>} \X Pts(img) \X Pts(img) : ~Collinear(t[1], t[2], t[3])}

Pentagons(img) ==
    IF img.w >= 2 /\ img.h >= 3 /\ img.h <= MaxDim
    THEN {FallbackCorners(img) \o <<<<0, 1>>>>}
    ELSE {}

Polygons(img) == Quads(img) \cup Triangles(img) \cup Pentagons(img)

Candidate(a, poly) == [area |-> a, approx |-> poly]

UnitSquare == <<<<0, 0>>, <<1, 0>>, <<1, 1>>, <<0, 1>>>>

\* The diamond inscribed in the image (of odd width and height).
Diamond(img) ==
    <<<<img.w \div 2, 0>>, <<img.w - 1, img.h \div 2>>,
      <<img.w \div 2, img.h - 1>>, <<0, img.h \div 2>>>>

SamplePolys(img) ==
    ({UnitSquare, FallbackCorners(img), Diamond(img)} \cap Quads(img))
        \cup {t \in Triangles(img) : t[2][2] = 0 /\ t[3][1] = 0}

SampleCandidates(img) == {Candidate(a, p) : a \in 1..2, p \in SamplePolys(img)}

\* The quadrilateral of the end-to-end scenario, TL, TR, BR, BL.
ScenarioCorners == <<<<100, 100>>, <<900, 120>>, <<880, 700>>, <<90, 680>>>>

Perms4 == {p \in [1..4 -> 1..4] : \A i, j \in 1..4 : i # j => p[i] # p[j]}

\* Its 4 vertices in each of the 24 orders.
ScenarioOrders ==
    {[i \in 1..4 |-> ScenarioCorners[p[i]]] : p \in Perms4}

\* The scenario's boundary as cv2.approxPolyDP can return it: traced from
\* any vertex in either direction.
ScenarioLists(img) ==
    IF img = ScenarioImage
    THEN {<<Candidate(contourArea2(q), q)>> : q \in {o \in ScenarioOrders : SimpleQuad(o)}}
    ELSE {}

\* n copies of the contour big, with the contour c at position k.
Padded(big, n, c, k) == [i \in 1..(n + 1) |-> IF i = k THEN c ELSE big]

\* A sampled quadrilateral with a sampled polygon of 3 or 5 vertices and
\* of larger area.
QuadAndLarger(img) ==
    {x \in (SamplePolys(img) \cup Pentagons(img)) \X (SamplePolys(img) \cup Pentagons(img)) :
        /\ Len(x[1]) = 4
        /\ Len(x[2]) # 4
        /\ contourArea2(x[2]) > contourArea2(x[1])}

\* Contour lists as long as the cap of step 3 and one longer: a
\* quadrilateral first or last in findContours order, among 9 or 10 larger
\* contours (nested outlines of one shape) that are not quadrilaterals.
CrowdedLists(img) ==
    {Padded(Candidate(contourArea2(x[2]), x[2]), n,
            Candidate(contourArea2(x[1]), x[1]), k) :
        x \in QuadAndLarger(img),
        n \in {TopN - 1, TopN},
        k \in {1, TopN, TopN + 1}}

\* Contour lists of an image: none, one contour of any polygon, pairs of
\* sampled contours in either order of area, lists reaching the cap, and
\* the scenario's contour.
ContourLists(img) ==
    {<<>>}
        \cup {<<Candidate(contourArea2(p), p)>> : p \in Polygons(img)}
        \cup {<<c, d>> : c \in SampleCandidates(img), d \in SampleCandidates(img)}
        \cup CrowdedLists(img)
        \cup ScenarioLists(img)

---------------------------------------------------------------------------
(* The caller: direct calls of the step methods, or scan_document *)

Fresh(s) == s = NewScanner(s.original)

Init ==
    /\ \E img \in Images :
          /\ scanner = NewScanner(img)
          /\ contours \in ContourLists(WorkingImage(img))
    /\ pc = "idle"
    /\ calls = <<>>
    /\ batch = None
    /\ analyzer = None
    /\ results = None
    /\ ret = None

Cleared(s) == [s EXCEPT !.error = NoError]

CallStep1 ==
    /\ pc = "idle"
    /\ scanner' = step1_preprocess(Cleared(scanner))
    /\ ret' = scanner'.preprocessed
    /\ UNCHANGED <<contours, pc, calls, batch, analyzer, results>>

CallStep2 ==
    /\ pc = "idle"
    /\ scanner' = step2_detect_edges(Cleared(scanner))
    /\ ret' = scanner'.edges
    /\ UNCHANGED <<contours, pc, calls, batch, analyzer, results>>

CallStep3 ==
    /\ pc = "idle"
    /\ scanner' = step3_find_document_contour(Cleared(scanner), contours)
    /\ ret' = scanner'.document_contour
    /\ UNCHANGED <<contours, pc, calls, batch, analyzer, results>>

CallStep4 ==
    /\ pc = "idle"
    /\ scanner' = step4_apply_perspective_transform(Cleared(scanner), contours)
    /\ ret' = scanner'.warped
    /\ UNCHANGED <<contours, pc, calls, batch, analyzer, results>>

CallStep5 ==
    /\ pc = "idle"
    /\ scanner' = step5_enhance_output(Cleared(scanner), contours)
    /\ ret' = scanner'.enhanced
    /\ UNCHANGED <<contours, pc, calls, batch, analyzer, results>>

\* scan_document is entered on a scanner just constructed, as main and
\* batch_scan_documents call it.
ScanStart ==
    /\ pc = "idle"
    /\ Fresh(scanner)
    /\ pc' = "step1"
    /\ UNCHANGED <<scanner, contours, ret, calls, batch, analyzer, results>>

After(s, next) == IF s.error # NoError THEN "raised" ELSE next

ScanStep1 ==
    /\ pc = "step1"
    /\ scanner' = step1_preprocess(scanner)
    /\ pc' = After(scanner', "step2")
    /\ UNCHANGED <<contours, ret, calls, batch, analyzer, results>>

ScanStep2 ==
    /\ pc = "step2"
    /\ scanner' = step2_detect_edges(scanner)
    /\ pc' = After(scanner', "step3")
    /\ UNCHANGED <<contours, ret, calls, batch, analyzer, results>>

ScanStep3 ==
    /\ pc = "step3"
    /\ scanner' = step3_find_document_contour(scanner, contours)
    /\ pc' = After(scanner', "step4")
    /\ UNCHANGED <<contours, ret, calls, batch, analyzer, results>>

ScanStep4 ==
    /\ pc = "step4"
    /\ scanner' = step4_apply_perspective_transform(scanner, contours)
    /\ pc' = After(scanner', "step5")
    /\ UNCHANGED <<contours, ret, calls, batch, analyzer, results>>

\* The last step and the return of self.enhanced.
ScanStep5 ==
    /\ pc = "step5"
    /\ scanner' = step5_enhance_output(scanner, contours)
    /\ pc' = After(scanner', "done")
    /\ ret' = IF scanner'.error # NoError THEN ret ELSE scanner'.enhanced
    /\ UNCHANGED <<contours, calls, batch, analyzer, results>>

Next ==
    \/ CallStep1 \/ CallStep2 \/ CallStep3 \/ CallStep4 \/ CallStep5
    \/ ScanStart \/ ScanStep1 \/ ScanStep2 \/ ScanStep3 \/ ScanStep4 \/ ScanStep5

Spec == Init /\ [][Next]_vars

---------------------------------------------------------------------------
(* The Corner Orderer called on its own *)

Grid == (0..(MaxDim - 1)) \X (0..(MaxDim - 1))

\* Every list of 4 grid points, duplicates included.
PointLists4 == Grid \X Grid \X Grid \X Grid

\* Contours of 3 and of 5 points.
PointListsNot4 ==
    (Grid \X Grid \X Grid) \cup {q \o <<<<0, 0>>>> : q \in PointLists4}

InitOrder ==
    /\ scanner = NewScanner([w |-> MaxDim, h |-> MaxDim])
    /\ contours = <<>>
    /\ pc = "order"
    /\ ret = None
    /\ calls = <<>>
    /\ batch = None
    /\ analyzer = None
    /\ results = None

\* Mutant: a tie is resolved by the last occurrence.
OrderPointsLastTie(pts) ==
    <<pts[ArgMinLast(SumXY(pts))], pts[ArgMinLast(DiffYX(pts))],
      pts[ArgMax(SumXY(pts))], pts[ArgMax(DiffYX(pts))]>>

\* ThreeDimensionalMotionAnalyzer._order_points: the same selection, with
\* no reshape of its argument.
_order_points(pts) ==
    <<pts[ArgMin(SumXY(pts))], pts[ArgMin(DiffYX(pts))],
      pts[ArgMax(SumXY(pts))], pts[ArgMax(DiffYX(pts))]>>

\* The orderer of module 5 or of module 4, by name.
Orderer(fn, P) == IF fn = "_order_points" THEN _order_points(P) ELSE _order_corners(P)

Call(fn, P) == [fn |-> fn, arg |-> P, ret |-> Orderer(fn, P)]

\* scanner._order_corners(P) for a list P of 4 points.
OrderCorners ==
    /\ pc = "order"
    /\ \E P \in PointLists4 : calls' = <<Call("_order_corners", P)>>
    /\ pc' = "ordered"
    /\ UNCHANGED <<scanner, contours, ret, batch, analyzer, results>>

\* scanner._order_corners(P) for a contour P of another length.
OrderCornersNot4 ==
    /\ pc = "order"
    /\ \E P \in PointListsNot4 : calls' = <<Call("_order_corners", P)>>
    /\ pc' = "ordered"
    /\ UNCHANGED <<scanner, contours, ret, batch, analyzer, results>>

\* analyzer._order_points(P) for a list P of 4 points, as
\* auto_detect_and_transform calls it.
OrderPoints ==
    /\ pc = "order"
    /\ \E P \in PointLists4 : calls' = <<Call("_order_points", P)>>
    /\ pc' = "ordered"
    /\ UNCHANGED <<scanner, contours, ret, batch, analyzer, results>>

\* The same orderer applied to the corners it returned.
OrderAgain ==
    /\ pc = "ordered"
    /\ calls[1].ret # "ValueError"
    /\ calls' = Append(calls, Call(calls[1].fn, calls[1].ret))
    /\ pc' = "reordered"
    /\ UNCHANGED <<scanner, contours, ret, batch, analyzer, results>>

\* The orderer of the other module.
OtherOrderer(fn) == IF fn = "_order_points" THEN "_order_corners" ELSE "_order_points"

\* The other module's orderer applied to the same list of 4 points.
OrderOther ==
    /\ pc = "ordered"
    /\ Len(calls[1].arg) = 4
    /\ calls' = Append(calls, Call(OtherOrderer(calls[1].fn), calls[1].arg))
    /\ pc' = "compared"
    /\ UNCHANGED <<scanner, contours, ret, batch, analyzer, results>>

NextOrder ==
    OrderCorners \/ OrderCornersNot4 \/ OrderPoints \/ OrderAgain \/ OrderOther

SpecOrder == InitOrder /\ [][NextOrder]_vars

---------------------------------------------------------------------------
(* Two scanner objects whose scan_document calls are interleaved *)

\* scan_document on one scanner, run alone from its first step to its last
\* (a step that raised leaves the later ones without effect).
scan_document(s, found) ==
    step5_enhance_output(
        step4_apply_perspective_transform(
            step3_find_document_contour(
                step2_detect_edges(step1_preprocess(s)), found), found), found)

Instances == 1..2

SampleImages == {[w |-> 3, h |-> 3], [w |-> 2000, h |-> 1000], [w |-> 1, h |-> 1001]}

\* No contour, or one contour that simplifies to a sampled quadrilateral.
SampleLists(img) ==
    {<<>>} \cup {<<Candidate(contourArea2(p), p)>> : p \in {q \in SamplePolys(img) : Len(q) = 4}}

SampleInputs ==
    UNION {{[img |-> i, found |-> f] : f \in SampleLists(WorkingImage(i))} : i \in SampleImages}

InitTwo ==
    /\ \E a, b \in SampleInputs :
          /\ scanner = <<NewScanner(a.img), NewScanner(b.img)>>
          /\ contours = <<a.found, b.found>>
    /\ pc = <<"step1", "step1">>
    /\ ret = <<None, None>>
    /\ calls = <<>>
    /\ batch = None
    /\ analyzer = None
    /\ results = None

\* The step method scan_document calls at position p, on scanner s.
StepBody(s, p, found) ==
    CASE p = "step1" -> step1_preprocess(s)
      [] p = "step2" -> step2_detect_edges(s)
      [] p = "step3" -> step3_find_document_contour(s, found)
      [] p = "step4" -> step4_apply_perspective_transform(s, found)
      [] p = "step5" -> step5_enhance_output(s, found)

NextPosition(p) ==
    CASE p = "step1" -> "step2"
      [] p = "step2" -> "step3"
      [] p = "step3" -> "step4"
      [] p = "step4" -> "step5"
      [] p = "step5" -> "done"

\* Mutant: image is an attribute of the class, so a step of one scanner
\* that assigns it assigns it for every scanner.
StepAtShared(S, i, p, found) ==
    [j \in DOMAIN S |->
        IF j = i THEN StepBody(S[i], p, found)
        ELSE [S[j] EXCEPT !.image = StepBody(S[i], p, found).image]]

\* The scanner objects S after scanner i ran its step: every field the
\* step methods read or assign is an attribute of self.
StepAt(S, i, p, found) == [S EXCEPT ![i] = StepBody(S[i], p, found)]

\* Scanner i runs the next step of its scan_document; calls records the
\* schedule.
TwoScanStep(i) ==
    /\ pc[i] \in {"step1", "step2", "step3", "step4", "step5"}
    /\ scanner' = StepAt(scanner, i, pc[i], contours[i])
    /\ pc' = [pc EXCEPT ![i] = After(scanner'[i], NextPosition(pc[i]))]
    /\ ret' = [ret EXCEPT ![i] = IF pc'[i] = "done" THEN scanner'[i].enhanced ELSE @]
    /\ calls' = Append(calls, i)
    /\ UNCHANGED <<contours, batch, analyzer, results>>

NextTwo == \E i \in Instances : TwoScanStep(i)

SpecTwo == InitTwo /\ [][NextTwo]_vars

---------------------------------------------------------------------------
(* The step methods called one by one on a scanner just constructed *)

\* Most calls of a step method in an enumerated sequence of calls.
MaxCalls == 3

InitCalls ==
    /\ \E a \in SampleInputs :
          /\ scanner = NewScanner(a.img)
          /\ contours = a.found
    /\ pc = "idle"
    /\ ret = None
    /\ calls = <<>>
    /\ batch = None
    /\ analyzer = None
    /\ results = None

StepName(k) == <<"step1", "step2", "step3", "step4", "step5">>[k]

\* What the results of steps 1 to 5 are stored in.
Results(s) == <<s.preprocessed, s.edges, s.corners, s.warped, s.enhanced>>

\* What step k returns.
Returned(s, k) == IF k = 3 THEN s.document_contour ELSE Results(s)[k]

\* scanner.step<k>_...(), whatever was called before; calls records the
\* sequence of calls.
DirectCall(k) ==
    /\ pc = "idle"
    /\ Len(calls) < MaxCalls
    /\ scanner' = StepBody(Cleared(scanner), StepName(k), contours)
    /\ ret' = IF scanner'.error # NoError THEN ret ELSE Returned(scanner', k)
    /\ calls' = Append(calls, k)
    /\ UNCHANGED <<contours, pc, batch, analyzer, results>>

NextCalls == \E k \in 1..5 : DirectCall(k)

SpecCalls == InitCalls /\ [][NextCalls]_vars

---------------------------------------------------------------------------
(* batch_scan_documents: every image file of a folder scanned in turn *)

\* Most entries of the enumerated folders.
MaxFiles == 3

extensions == <<".jpg", ".jpeg", ".png", ".bmp">>

\* f.lower(), on the suffix of a file name.
Lower(ext) ==
    CASE ext = ".JPG" -> ".jpg"
      [] ext = ".PNG" -> ".png"
      [] OTHER -> ext

\* An entry of the folder: its name, what cv2.imread makes of it (None
\* when it cannot be decoded) and the contours of its edge map.
DirEntry(stem, ext, img, found) ==
    [stem |-> stem, ext |-> ext, img |-> img, found |-> found]

\* A scan that returns, a scan whose resize raises cv2.error, a file that
\* is no image under an image's name, a text file, a large image whose
\* outline is found, and a second image named a.
SampleFiles ==
    {DirEntry("a", ".jpg", [w |-> 3, h |-> 3], <<>>),
     DirEntry("a", ".bmp", [w |-> 2, h |-> 2], <<>>),
     DirEntry("a", ".PNG", [w |-> 1, h |-> 1001], <<>>),
     DirEntry("b", ".jpeg", None, <<>>),
     DirEntry("notes", ".txt", None, <<>>),
     DirEntry("c", ".bmp", [w |-> 2000, h |-> 1000],
              <<Candidate(1, FallbackCorners([w |-> 1000, h |-> 500]))>>)}

\* os.listdir(input_folder): up to n entries of different names, in any
\* order.
RECURSIVE Listings(_)
Listings(n) ==
    IF n = 0 THEN {<<>>}
    ELSE Listings(n - 1) \cup
         {Append(x[1], x[2]) :
            x \in {y \in Listings(n - 1) \X SampleFiles :
                      /\ Len(y[1]) = n - 1
                      /\ \A k \in 1..Len(y[1]) : y[1][k] # y[2]}}

\* [f for f in os.listdir(input_folder) if f.lower().endswith(ext)]
WithExtension(listing, ext) == SelectSeq(listing, LAMBDA f : Lower(f.ext) = ext)

\* image_files after the loop over extensions[k], extensions[k + 1], ...
RECURSIVE FindImages(_, _)
FindImages(listing, k) ==
    IF k > Len(extensions) THEN <<>>
    ELSE WithExtension(listing, extensions[k]) \o FindImages(listing, k + 1)

InitBatch ==
    /\ \E listing \in Listings(MaxFiles) :
          batch = [listing |-> listing, image_files |-> <<>>, idx |-> 0,
                   successful |-> 0, failed |-> 0, log |-> <<>>]
    /\ pc = "find"
    /\ scanner = None
    /\ contours = <<>>
    /\ ret = None
    /\ calls = <<>>
    /\ analyzer = None
    /\ results = None

\* The head of the for loop: the next image file, or the report.
LoopAt(b) == IF b.idx <= Len(b.image_files) THEN "construct" ELSE "report"

BatchFind ==
    /\ pc = "find"
    /\ batch' = [batch EXCEPT !.image_files = FindImages(batch.listing, 1), !.idx = 1]
    /\ pc' = LoopAt(batch')
    /\ UNCHANGED <<scanner, contours, ret, calls, analyzer, results>>

\* Mutant: except ValueError.
CaughtValueError(e) == e = "ValueError"

\* except Exception: ValueError, cv2.error and OSError derive from it.
Caught(e) == e \in {"ValueError", "cv2.error", "OSError"}

\* f"scanned_{os.path.splitext(img_file)[0]}.png": the name of file f
\* without its extension, between "scanned_" and ".png".
output_filename(f) == [prefix |-> "scanned_", stem |-> f.stem, ext |-> ".png"]

\* The counters and the log after an iteration ended with outcome e, the
\* loop index moved on; the log keeps the file the iteration wrote in the
\* output folder.
Counted(b, e) ==
    [b EXCEPT !.successful = IF e = NoError THEN @ + 1 ELSE @,
              !.failed = IF e = NoError THEN @ ELSE @ + 1,
              !.log = Append(@, [file |-> b.image_files[b.idx], outcome |-> e,
                                 output |-> IF e = NoError
                                            THEN output_filename(b.image_files[b.idx])
                                            ELSE None]),
              !.idx = @ + 1]

\* The iteration ends with outcome e: counted and followed by the next
\* iteration, unless e is raised and the except clause does not catch it.
Finish(e) ==
    IF e = NoError \/ Caught(e)
    THEN batch' = Counted(batch, e) /\ pc' = LoopAt(batch')
    ELSE batch' = batch /\ pc' = "aborted"

\* Mutant: what cv2.imread returned is not checked.
ConstructUnchecked(img) == NewScanner(img)

\* DocumentScannerApplication(image_path): raises ValueError when
\* cv2.imread returned None, else the object as __init__ leaves it.
DocumentScannerApplication(img) ==
    IF img = None THEN [error |-> "ValueError"] ELSE NewScanner(img)

\* scanner = DocumentScannerApplication(img_path)
BatchConstruct ==
    /\ pc = "construct"
    /\ LET f    == batch.image_files[batch.idx]
           made == DocumentScannerApplication(f.img)
       IN  IF made.error # NoError
           THEN Finish(made.error) /\ UNCHANGED <<scanner, contours>>
           ELSE /\ scanner' = made
                /\ contours' = f.found
                /\ pc' = "scan"
                /\ batch' = batch
    /\ UNCHANGED <<ret, calls, analyzer, results>>

\* scanner.scan_document(enhance=True)
BatchScan ==
    /\ pc = "scan"
    /\ scanner' = scan_document(scanner, contours)
    /\ IF scanner'.error # NoError
       THEN Finish(scanner'.error)
       ELSE pc' = "save" /\ batch' = batch
    /\ UNCHANGED <<contours, ret, calls, analyzer, results>>

\* scanner.save_scanned_document(output_folder, output_filename) and
\* successful += 1; os.makedirs or cv2.imwrite may raise.
BatchSave ==
    /\ pc = "save"
    /\ \E e \in {NoError, "OSError"} : Finish(e)
    /\ UNCHANGED <<scanner, contours, ret, calls, analyzer, results>>

\* The closing report of the two counters.
BatchReport ==
    /\ pc = "report"
    /\ ret' = [successful |-> batch.successful, failed |-> batch.failed]
    /\ pc' = "returned"
    /\ UNCHANGED <<scanner, contours, calls, batch, analyzer, results>>

NextBatch == BatchFind \/ BatchConstruct \/ BatchScan \/ BatchSave \/ BatchReport

SpecBatch == InitBatch /\ [][NextBatch]_vars

---------------------------------------------------------------------------
(* test_all_modules: the test of each module run in turn, then the report *)

\* The keys of the results dictionary, in the order the tests are run.
Modules == <<"CLR-1", "CLR-2", "CLR-3", "CLR-4", "CLR-5">>

\* What test_clr<k>(image_path) can end with: it returns, or raises the
\* ValueError of an image that cannot be loaded, a cv2.error or an OSError.
TestOutcomes == {NoError, "ValueError", "cv2.error", "OSError"}

\* The entry every module starts with (error None).
Pending == [status |-> "pending", time |-> 0, error |-> NoError]

\* results as test_all_modules builds it, and the first test about to run.
InitTest ==
    /\ results = [m \in {Modules[k] : k \in 1..5} |-> Pending]
    /\ pc = Modules[1]
    /\ ret = None
    /\ calls = <<>>
    /\ scanner = None
    /\ contours = <<>>
    /\ batch = None
    /\ analyzer = None

\* The try branch ran to its end: status and the elapsed time (over 0).
Succeeded(r) == [r EXCEPT !.status = "success", !.time = 1]

\* Mutant: the except branch records the error and leaves the status.
FailedStatusKept(r, e) == [r EXCEPT !.error = e]

\* The except branch: status and str(e).
Failed(r, e) == [r EXCEPT !.status = "failed", !.error = e]

\* except Exception: the errors a module test raises derive from it.
TestCaught(e) == e \in {"ValueError", "cv2.error", "OSError"}

\* The block of module k: test_clr<k> ends with outcome e; calls records
\* the tests run and how they ended.
TestModule(k) ==
    /\ pc = Modules[k]
    /\ \E e \in TestOutcomes :
          /\ calls' = Append(calls, [module |-> Modules[k], raised |-> e])
          /\ IF e = NoError
             THEN /\ results' = [results EXCEPT ![Modules[k]] = Succeeded(@)]
                  /\ pc' = IF k < 5 THEN Modules[k + 1] ELSE "report"
             ELSE IF TestCaught(e)
                  THEN /\ results' = [results EXCEPT ![Modules[k]] = Failed(@, e)]
                       /\ pc' = IF k < 5 THEN Modules[k + 1] ELSE "report"
                  ELSE /\ results' = results
                       /\ pc' = "aborted"
    /\ UNCHANGED <<scanner, contours, ret, batch, analyzer>>

\* sum(1 for r in results.values() if r['status'] == status)
CountStatus(res, status) ==
    Cardinality({m \in DOMAIN res : res[m].status = status})

\* generate_final_report(results): the counts it prints.
GenerateFinalReport ==
    /\ pc = "report"
    /\ ret' = [total |-> Cardinality(DOMAIN results),
               successful |-> CountStatus(results, "success"),
               failed |-> CountStatus(results, "failed")]
    /\ pc' = "returned"
    /\ UNCHANGED <<scanner, contours, calls, batch, analyzer, results>>

NextTest == (\E k \in 1..5 : TestModule(k)) \/ GenerateFinalReport

SpecTest == InitTest /\ [][NextTest]_vars

---------------------------------------------------------------------------
(* ThreeDimensionalMotionAnalyzer: auto_detect_and_transform *)

\* The contours auto_detect_and_transform examines: contours[:5].
AutoTopN == 5

\* __init__ on a loadable image.
NewAnalyzer(img) ==
    [original |-> img, image |-> img, gray |-> img,
     warped |-> None, homography_matrix |-> None]

\* apply_perspective_transform(src_points, width, height): the matrix is
\* kept and the original image warped to width x height.
apply_perspective_transform(a, src_points, width, height) ==
    LET M == getPerspectiveTransform(src_points, dst_points(width, height))
    IN  [a EXCEPT !.homography_matrix = M,
                  !.warped = warpPerspective(a.original, M, [w |-> width, h |-> height])]

\* Mutant: every contour is examined.
AutoContoursUncapped(found) == SortByArea(found)

\* contours[:5] of the contours sorted by area, largest first.
AutoContours(found) ==
    SubSeq(SortByArea(found), 1, IF Len(found) < AutoTopN THEN Len(found) ELSE AutoTopN)

\* The for loop over contours[:5]: the first polygon of 4 points, or None.
RECURSIVE FirstQuad(_, _)
FirstQuad(top, i) ==
    IF i > Len(top) THEN None
    ELSE IF Len(top[i].approx) = 4 THEN top[i].approx
         ELSE FirstQuad(top, i + 1)

\* int(width) and int(height) of the ordered points.
AutoSize(ordered_points) ==
    [w |-> IntMaxNorm(ordered_points[1], ordered_points[2],
                      ordered_points[3], ordered_points[4]),
     h |-> IntMaxNorm(ordered_points[1], ordered_points[4],
                      ordered_points[2], ordered_points[3])]

\* The if branch: the points ordered, the output size taken from them and
\* the transform applied; warped and ordered_points are returned.
AutoTransform(a, document_contour) ==
    LET ordered_points == _order_points(document_contour)
        size == AutoSize(ordered_points)
        a2   == apply_perspective_transform(a, ordered_points, size.w, size.h)
    IN  [analyzer |-> a2, ret |-> <<a2.warped, ordered_points>>]

\* auto_detect_and_transform(): the analyzer it leaves and what it returns.
auto_detect_and_transform(a, found) ==
    IF FirstQuad(AutoContours(found), 1) # None
    THEN AutoTransform(a, FirstQuad(AutoContours(found), 1))
    ELSE [analyzer |-> a, ret |-> <<None, None>>]

\* Contour lists one longer than the cap: a quadrilateral first, fifth or
\* sixth in findContours order among 4 or 5 larger contours that are not
\* quadrilaterals.
AutoCrowdedLists(img) ==
    {Padded(Candidate(contourArea2(x[2]), x[2]), n,
            Candidate(contourArea2(x[1]), x[1]), k) :
        x \in QuadAndLarger(img),
        n \in {AutoTopN - 1, AutoTopN},
        k \in {1, AutoTopN, AutoTopN + 1}}

\* The contours of an image's edge map: none, one contour of any polygon,
\* pairs of sampled contours, and lists reaching the cap.
AutoContourLists(img) ==
    {<<>>}
        \cup {<<Candidate(contourArea2(p), p)>> : p \in Polygons(img)}
        \cup {<<c, d>> : c \in SampleCandidates(img), d \in SampleCandidates(img)}
        \cup AutoCrowdedLists(img)

\* The small images and a large one, which the analyzer does not resize
\* and in which a quadrilateral can be under a tenth of the image.
AutoImages == SmallImages \cup {[w |-> 1000, h |-> 500]}

InitAuto ==
    /\ \E img \in AutoImages :
          /\ analyzer = NewAnalyzer(img)
          /\ contours \in AutoContourLists(img)
    /\ pc = "idle"
    /\ ret = None
    /\ calls = <<>>
    /\ scanner = None
    /\ batch = None
    /\ results = None

\* Output sizes of a direct call: the image's own size, and 2 x 2.
ApplySizes(img) == {img, [w |-> 2, h |-> 2]}

\* analyzer.apply_perspective_transform(src_points, width, height) on the
\* corners of the image; calls keeps the last call and the analyzer it was
\* made on.
ApplyPerspectiveTransform ==
    /\ pc = "idle"
    /\ \E size \in ApplySizes(analyzer.original) :
          analyzer' = apply_perspective_transform(
                          analyzer, FallbackCorners(analyzer.original), size.w, size.h)
    /\ ret' = analyzer'.warped
    /\ calls' = <<[fn |-> "apply_perspective_transform", before |-> analyzer]>>
    /\ UNCHANGED <<scanner, contours, pc, batch, results>>

\* analyzer.auto_detect_and_transform()
AutoDetectAndTransform ==
    /\ pc = "idle"
    /\ analyzer' = auto_detect_and_transform(analyzer, contours).analyzer
    /\ ret' = auto_detect_and_transform(analyzer, contours).ret
    /\ calls' = <<[fn |-> "auto_detect_and_transform", before |-> analyzer]>>
    /\ UNCHANGED <<scanner, contours, pc, batch, results>>

NextAuto == ApplyPerspectiveTransform \/ AutoDetectAndTransform

SpecAuto == InitAuto /\ [][NextAuto]_vars

---------------------------------------------------------------------------
(* Properties of the rectification pipeline *)

Img == scanner.image

\* Step 3 has completed in this state.
Step3Done == pc \in {"step4", "step5", "done"} \/ scanner.corners # None

\* No contour among the 10 largest simplifies to 4 vertices enclosing more
\* than a tenth of the working image.
NoQuadAccepted ==
    \A i \in 1..Len(TopContours(contours)) :
        LET poly == TopContours(contours)[i].approx
        IN  ~(Len(poly) = 4 /\ 10 * contourArea2(poly) > 2 * Img.w * Img.h)

ImageCorners ==
    <<<<0, 0>>, <<Img.w - 1, 0>>, <<Img.w - 1, Img.h - 1>>, <<0, Img.h - 1>>>>

\* C1: scan_document never ends by raising, for any image of at least 1x1
\* pixels and any contours, and when it returns it returns the enhanced
\* output raster.
C1_ScanReturnsWithoutRaising ==
    /\ pc # "raised"
    /\ pc = "done" => (ret # None /\ ret = scanner.enhanced)

\* C2: when step 3 accepts no quadrilateral (an empty contour list
\* included) it raises nothing, leaves document_contour None and sets
\* corners to (0,0), (w-1,0), (w-1,h-1), (0,h-1) of the working image.
C2_FallbackCorners ==
    (NoQuadAccepted /\ Step3Done) =>
        /\ scanner.error = NoError
        /\ scanner.document_contour = None
        /\ scanner.corners = ImageCorners

C2_Witness ==
    /\ pc = "step4"
    /\ NoQuadAccepted
    /\ \E i \in 1..Len(contours) : Len(contours[i].approx) = 4
    /\ scanner.document_contour = None
    /\ scanner.corners = ImageCorners

\* C3: with an empty contour list the warped raster has exactly the width
\* and height of the working image.
C3_FallbackOutputHasImageSize ==
    (contours = <<>> /\ scanner.warped # None) =>
        (scanner.warped.w = Img.w /\ scanner.warped.h = Img.h)

\* C4: when the ordered corners of an accepted quadrilateral are
\* degenerate (three collinear or two coincident) step 4 solves and warps
\* from the full-image fallback corners instead.
C4_DegenerateSwitchesToFallback ==
    (/\ scanner.warped # None
     /\ scanner.document_contour # None
     /\ Degenerate(_order_corners(scanner.document_contour))) =>
        (scanner.M.src = ImageCorners /\ scanner.corners = ImageCorners)

\* C5: with 4 collinear source points the solver signals
\* DegenerateHomography and no matrix of it reaches the warp.
C5_CollinearSignalsDegenerate ==
    (scanner.M # None /\ AllCollinear(scanner.M.src)) =>
        (scanner.error = "DegenerateHomography" /\ scanner.warped = None)

\* i is the first index at which v is least.
IsFirstMin(v, i) ==
    /\ \A j \in 1..Len(v) : v[j] >= v[i]
    /\ \A j \in 1..(i - 1) : v[j] > v[i]

\* i is the first index at which v is greatest.
IsFirstMax(v, i) ==
    /\ \A j \in 1..Len(v) : v[j] <= v[i]
    /\ \A j \in 1..(i - 1) : v[j] < v[i]

SumsOf(P) == [i \in 1..4 |-> P[i][1] + P[i][2]]

DiffsOf(P) == [i \in 1..4 |-> P[i][2] - P[i][1]]

\* C6: for every list of 4 points the orderer returns (TL, TR, BR, BL) with
\* TL the first point of minimum x+y, TR the first of minimum y-x, BR the
\* first of maximum x+y and BL the first of maximum y-x.
C6_OrderBySumAndDifference ==
    \A n \in 1..Len(calls) :
        LET P == calls[n].arg
            R == calls[n].ret
        IN  Len(P) = 4 =>
              /\ \E i \in 1..4 : IsFirstMin(SumsOf(P), i) /\ R[1] = P[i]
              /\ \E i \in 1..4 : IsFirstMin(DiffsOf(P), i) /\ R[2] = P[i]
              /\ \E i \in 1..4 : IsFirstMax(SumsOf(P), i) /\ R[3] = P[i]
              /\ \E i \in 1..4 : IsFirstMax(DiffsOf(P), i) /\ R[4] = P[i]

\* Two distinct points share the least x+y and the first of them is TL.
C6_Witness ==
    /\ pc = "ordered"
    /\ Len(calls[1].arg) = 4
    /\ \E i, j \in 1..4 :
          /\ i < j
          /\ calls[1].arg[i] # calls[1].arg[j]
          /\ IsFirstMin(SumsOf(calls[1].arg), i)
          /\ SumsOf(calls[1].arg)[j] = SumsOf(calls[1].arg)[i]
          /\ calls[1].ret[1] = calls[1].arg[i]

\* C7 as stated: ordering the orderer's own output returns it unchanged,
\* for every list of 4 points.
C7_Idempotent ==
    pc = "reordered" => calls[2].ret = calls[2].arg

\* No two distinct points of P share the least y-x, the greatest x+y or
\* the greatest y-x.
NoExtremalTie(P) ==
    \A i, j \in 1..4 :
        P[i] # P[j] =>
            /\ ~(IsFirstMin(DiffsOf(P), i) /\ DiffsOf(P)[j] = DiffsOf(P)[i])
            /\ ~(IsFirstMax(SumsOf(P), i) /\ SumsOf(P)[j] = SumsOf(P)[i])
            /\ ~(IsFirstMax(DiffsOf(P), i) /\ DiffsOf(P)[j] = DiffsOf(P)[i])

\* C7 amended: ordering the orderer's own output returns it unchanged for
\* every list of 4 points in which no two distinct points tie for the
\* minimum y-x, the maximum x+y or the maximum y-x.
C7_IdempotentWithoutTies ==
    (pc = "reordered" /\ NoExtremalTie(calls[1].arg)) =>
        calls[2].ret = calls[2].arg

\* A tie-free list of 4 distinct points, not in canonical order, ordered
\* twice.
C7_Witness ==
    /\ pc = "reordered"
    /\ NoExtremalTie(calls[1].arg)
    /\ Distinct(calls[1].arg)
    /\ calls[1].ret # calls[1].arg
    /\ calls[2].ret = calls[1].ret

\* C8: _order_corners on a contour of fewer or more than 4 points raises
\* instead of returning an ordering.
C8_WrongLengthRaises ==
    \A n \in 1..Len(calls) :
        (calls[n].fn = "_order_corners" /\ Len(calls[n].arg) # 4) =>
            calls[n].ret = "ValueError"

C8_Witness ==
    /\ pc = "ordered"
    /\ calls[1].fn = "_order_corners"
    /\ Len(calls[1].arg) = 3
    /\ calls[1].ret = "ValueError"

\* r is the floor of the square root of n.
IsFloorSqrt(r, n) == r >= 0 /\ r * r <= n /\ (r + 1) * (r + 1) > n

\* The larger of the squared lengths of edges ab and cd.
LongerSq(a, b, c, d) ==
    LET ab == (a[1] - b[1]) * (a[1] - b[1]) + (a[2] - b[2]) * (a[2] - b[2])
        cd == (c[1] - d[1]) * (c[1] - d[1]) + (c[2] - d[2]) * (c[2] - d[2])
    IN  IF ab >= cd THEN ab ELSE cd

\* An axis-aligned square TL, TR, BR, BL of side e > 0.
IsAxisSquare(c) ==
    \E e \in 1..max_dimension :
        /\ c[2] = <<c[1][1] + e, c[1][2]>>
        /\ c[3] = <<c[1][1] + e, c[1][2] + e>>
        /\ c[4] = <<c[1][1], c[1][2] + e>>

\* C9: the output width is floor(max(|TL TR|, |BL BR|)) and the output
\* height floor(max(|TL BL|, |TR BR|)); an axis-aligned square gives
\* width = height.
C9_OutputDimensions ==
    scanner.dsize # None =>
        LET c == scanner.corners
        IN  /\ IsFloorSqrt(scanner.dsize.w, LongerSq(c[1], c[2], c[4], c[3]))
            /\ IsFloorSqrt(scanner.dsize.h, LongerSq(c[1], c[4], c[2], c[3]))
            /\ IsAxisSquare(c) => scanner.dsize.w = scanner.dsize.h

\* An accepted quadrilateral whose bottom edge is longer than its top edge.
C9_Witness ==
    /\ scanner.dsize # None
    /\ scanner.document_contour # None
    /\ LET c == scanner.corners
       IN  /\ LongerSq(c[1], c[2], c[1], c[2]) < LongerSq(c[4], c[3], c[4], c[3])
           /\ scanner.dsize.w * scanner.dsize.w = LongerSq(c[4], c[3], c[4], c[3])

\* C10: the output width and height passed to the resampler are both at
\* least 1.
C10_OutputSizeAtLeastOne ==
    scanner.dsize # None => (scanner.dsize.w >= 1 /\ scanner.dsize.h >= 1)

\* The scenario's image with the scenario's quadrilateral as its contour.
ScenarioDetected ==
    /\ scanner.original = ScenarioImage
    /\ Len(contours) = 1
    /\ contours[1].approx \in ScenarioOrders

\* C11: in the 1000x800 image, with the quadrilateral (100,100), (900,120),
\* (880,700), (90,680) detected, the orderer yields TL=(100,100),
\* TR=(900,120), BR=(880,700), BL=(90,680) for each of the 24 orders of
\* the vertices, step 3 accepts the quadrilateral (it passes the 10% area
\* threshold) and the output is 800 wide and 580 high.
C11_Scenario ==
    ScenarioDetected =>
        /\ \A P \in ScenarioOrders : _order_corners(P) = ScenarioCorners
        /\ Step3Done =>
              /\ scanner.document_contour = contours[1].approx
              /\ scanner.corners = ScenarioCorners
        /\ scanner.warped # None =>
              /\ scanner.dsize = [w |-> 800, h |-> 580]
              /\ scanner.warped = [w |-> 800, h |-> 580]

\* The scenario scanned to the end from a boundary traced from another
\* vertex than TL.
C11_Witness ==
    /\ pc = "done"
    /\ ScenarioDetected
    /\ contours[1].approx # ScenarioCorners
    /\ scanner.corners = ScenarioCorners
    /\ ret = [w |-> 800, h |-> 580]

\* Position of contours[i] among the contours by area, largest first,
\* contours of equal area in the order findContours gave them.
Rank(i) ==
    1 + Cardinality({j \in 1..Len(contours) :
                        \/ contours[j].area > contours[i].area
                        \/ contours[j].area = contours[i].area /\ j < i})

\* The simplified polygon of contours[i] has exactly 4 vertices and an
\* area over a tenth of the working image's.
Qualifies(i) ==
    /\ Len(contours[i].approx) = 4
    /\ 10 * contourArea2(contours[i].approx) > 2 * Img.w * Img.h

C13_OrderedCornersReachSolver ==
    scanner.M # None =>
        IF scanner.document_contour # None
        THEN scanner.M.src = _order_corners(scanner.document_contour)
        ELSE scanner.M.src = ImageCorners

\* Step 4 called directly on a scanner whose quadrilateral was found in
\* another order than TL, TR, BR, BL.
C13_Witness ==
    /\ pc = "idle"
    /\ scanner.M # None
    /\ scanner.enhanced = None
    /\ scanner.document_contour # None
    /\ scanner.M.src # scanner.document_contour

\* C14: for ordered corners with no three on a line, the homography step 4
\* computes maps each of the 4 source corners to its destination corner
\* (0,0), (W-1,0), (W-1,H-1), (0,H-1).
C14_HomographyMapsCorners ==
    (scanner.M # None /\ ~Degenerate(scanner.M.src)) =>
        \A i \in 1..4 :
            CornerImage(scanner.M, i) = dst_points(scanner.dsize.w, scanner.dsize.h)[i]

\* The scanner scan_document leaves when it runs alone on the image and
\* the contours of scanner i (original and contours never change).
Alone(i) == scan_document(NewScanner(scanner[i].original), contours[i])

\* C16: two scanners whose pipeline steps are interleaved in any order each
\* end with the corners, the output dimensions and the rasters of a run
\* alone, and a step of one scanner leaves every field of the other as it
\* was.
C16_InstancesIndependent ==
    [][\A i \in Instances :
          /\ pc'[i] = pc[i] => scanner'[i] = scanner[i]
          /\ pc'[i] \in {"done", "raised"} =>
                /\ scanner'[i].corners = Alone(i).corners
                /\ scanner'[i].dsize = Alone(i).dsize
                /\ scanner'[i].image = Alone(i).image
                /\ scanner'[i].warped = Alone(i).warped
                /\ scanner'[i].enhanced = Alone(i).enhanced
                /\ scanner'[i].error = Alone(i).error]_vars

\* Two scanners of different images, every step of one between two steps
\* of the other, both scanned to the end.
C16_Witness ==
    /\ pc = <<"done", "done">>
    /\ calls = <<1, 2, 1, 2, 1, 2, 1, 2, 1, 2>>
    /\ scanner[1].image # scanner[2].image
    /\ scanner[1].document_contour # None
    /\ scanner[2].document_contour = None

\* C17: batch_scan_documents attempts every image file it found, in the
\* order found; no exception raised while an image is loaded, scanned or
\* saved ends the run; and the counters reported at the end add up to the
\* number of image files found.
C17_BatchAttemptsEveryImage ==
    /\ pc # "aborted"
    /\ pc = "returned" =>
          /\ [k \in 1..Len(batch.log) |-> batch.log[k].file] = batch.image_files
          /\ \A k \in 1..Len(batch.listing) :
                Lower(batch.listing[k].ext) \in {".jpg", ".jpeg", ".png", ".bmp"} =>
                    \E j \in 1..Len(batch.log) : batch.log[j].file = batch.listing[k]
          /\ ret.successful + ret.failed = Len(batch.image_files)

\* A file that cannot be loaded, then one whose scan raises, then one that
\* is scanned and saved.
C17_Witness ==
    /\ pc = "returned"
    /\ Len(batch.log) = 3
    /\ batch.log[1].outcome = "ValueError"
    /\ batch.log[2].outcome = "cv2.error"
    /\ batch.log[3].outcome = NoError
    /\ ret = [successful |-> 1, failed |-> 2]

\* C18: constructing a scanner on an image that cannot be loaded raises
\* ValueError, and no scanner object has a missing image: the steps run on
\* a scanner that holds the loaded image of the current file.
C18_UnloadableImageRaises ==
    /\ \A k \in 1..Len(batch.log) :
          batch.log[k].file.img = None => batch.log[k].outcome = "ValueError"
    /\ scanner # None => scanner.original # None
    /\ pc \in {"scan", "save"} =>
          scanner.original = batch.image_files[batch.idx].img

\* A file that could not be loaded, and the scanner of the next file about
\* to be scanned.
C18_Witness ==
    /\ pc = "scan"
    /\ Len(batch.log) = 1
    /\ batch.log[1].file.img = None
    /\ batch.log[1].outcome = "ValueError"
    /\ scanner.original # None

\* C19: in any sequence of calls of step 1 to step 5 on a scanner just
\* constructed, no step's result is there without the results of all the
\* steps before it (results are assigned by their step's body only and
\* never cleared, so no body ran before its prerequisites), and a call of
\* step k that returns leaves the results of steps 1 to k: a step called
\* early first runs the steps it misses.
C19_PrerequisitesFirst ==
    /\ \A k \in 2..5 : Results(scanner)[k] # None => Results(scanner)[k - 1] # None
    /\ (calls # <<>> /\ scanner.error = NoError) =>
          \A j \in 1..calls[Len(calls)] : Results(scanner)[j] # None

\* Step 4 called first: the results of steps 1 to 4 are there, step 5 has
\* not run.
C19_Witness ==
    /\ calls = <<4>>
    /\ \A j \in 1..4 : Results(scanner)[j] # None
    /\ scanner.enhanced = None
    /\ ret = scanner.warped

\* The stage scan_document is about to run: 1 to 5.
Stage ==
    CASE pc = "step1" -> 1
      [] pc = "step2" -> 2
      [] pc = "step3" -> 3
      [] pc = "step4" -> 4
      [] pc = "step5" -> 5

\* A step of scan_document from stage k: the results of the stages before
\* k are there and stay as they were, those of stage k and after are not
\* there yet; stage k assigns its result, or raises.
StageStep ==
    /\ pc' \in {NextPosition(pc), "raised"}
    /\ \A j \in 1..5 :
          IF j < Stage
          THEN /\ Results(scanner)[j] # None
               /\ Results(scanner')[j] = Results(scanner)[j]
          ELSE Results(scanner)[j] = None
    /\ pc' # "raised" =>
          /\ Results(scanner')[Stage] # None
          /\ \A j \in (Stage + 1)..5 : Results(scanner')[j] = None
    /\ (Stage = 3 /\ pc' # "raised") =>
          scanner'.corners =
              IF scanner'.document_contour # None
              THEN _order_corners(scanner'.document_contour)
              ELSE FallbackCorners(scanner'.image)
    /\ Stage > 3 => scanner'.document_contour = scanner.document_contour
    /\ Stage > 4 => (scanner'.M = scanner.M /\ scanner'.dsize = scanner.dsize)

\* C20: within one scan_document call the stages run in the order
\* preprocess, edge detection, contour search (with corner ordering when a
\* quadrilateral is found, the fallback corners otherwise), perspective
\* transform, enhancement, each once; corners, the homography, the output
\* size and the warped raster are assigned by their stage and left as they
\* are by every later stage of the call.
C20_StagesInOrderOnce ==
    [][(pc \in {"step1", "step2", "step3", "step4", "step5"}) => StageStep]_vars

\* A scan that found a quadrilateral, ordered its corners to another order
\* and returned the enhanced raster.
C20_Witness ==
    /\ pc = "done"
    /\ \A j \in 1..5 : Results(scanner)[j] # None
    /\ scanner.document_contour # None
    /\ scanner.corners # scanner.document_contour
    /\ scanner.warped # scanner.image
    /\ ret = scanner.enhanced

\* The corners TL, TR, BR, BL of the axis-aligned rectangle from (x0, y0)
\* to (x1, y1).
AxisRectangle(x0, y0, x1, y1) ==
    <<<<x0, y0>>, <<x1, y0>>, <<x1, y1>>, <<x0, y1>>>>

\* How many times point x occurs in the list P.
Occurrences(x, P) == Cardinality({i \in 1..Len(P) : P[i] = x})

\* P holds the points of R in some order: each as many times as R does.
IsOrderOf(P, R) ==
    /\ Len(P) = Len(R)
    /\ \A i \in 1..Len(R) : Occurrences(R[i], P) = Occurrences(R[i], R)

\* The least and the greatest of the x (k = 1) or y (k = 2) of the points
\* of P.
Least(P, k) == CHOOSE v \in {P[i][k] : i \in 1..4} : \A i \in 1..4 : P[i][k] >= v

Greatest(P, k) == CHOOSE v \in {P[i][k] : i \in 1..4} : \A i \in 1..4 : P[i][k] <= v

\* The axis-aligned rectangle that bounds the 4 points of P.
Bounding(P) == AxisRectangle(Least(P, 1), Least(P, 2), Greatest(P, 1), Greatest(P, 2))

\* P holds the 4 corners of an axis-aligned rectangle of positive width
\* and height, in some order.
IsRectangle(P) ==
    /\ Least(P, 1) < Greatest(P, 1)
    /\ Least(P, 2) < Greatest(P, 2)
    /\ IsOrderOf(P, Bounding(P))

\* C21: for the four corners of an axis-aligned rectangle of positive
\* width and height, given in any of their 24 orders, the orderer returns
\* exactly (top-left, top-right, bottom-right, bottom-left).
C21_RectangleAnyOrder ==
    \A n \in 1..Len(calls) :
        (Len(calls[n].arg) = 4 /\ IsRectangle(calls[n].arg)) =>
            calls[n].ret = Bounding(calls[n].arg)

\* A rectangle wider than high, given bottom-left first.
C21_Witness ==
    /\ pc = "ordered"
    /\ calls[1].fn = "_order_corners"
    /\ calls[1].arg = <<<<0, 1>>, <<2, 1>>, <<0, 0>>, <<2, 0>>>>
    /\ calls[1].ret = AxisRectangle(0, 0, 2, 1)

\* a and b are both None, or the same value.
Same(a, b) == IF a = None \/ b = None THEN a = None /\ b = None ELSE a = b

\* Every field of scanner s has the value it has in t.
SameFields(s, t) ==
    /\ s.error = t.error
    /\ \A f \in DOMAIN s \ {"error"} : Same(s[f], t[f])

\* C22: a run of step3_find_document_contour changes no field of the
\* scanner; it only returns the accepted quadrilateral or None.
C22_Step3NoSideEffects ==
    [][(pc = "step3") => SameFields(scanner, scanner')]_pc

\* C23: the destination points given to the homography computation are
\* (0,0), (W-1,0), (W-1,H-1), (0,H-1) for the output width W and height H
\* step 4 derived from the corners, and the output raster is W wide and H
\* high.
C23_CanonicalDestination ==
    scanner.M # None =>
        LET W == scanner.dsize.w
            H == scanner.dsize.h
        IN  /\ scanner.M.dst = <<<<0, 0>>, <<W - 1, 0>>, <<W - 1, H - 1>>, <<0, H - 1>>>>
            /\ scanner.warped = [w |-> W, h |-> H]

C25_WorkingImageBounded ==
    (scanner.preprocessed # None \/ scanner.error # NoError) =>
        LET w == scanner.original.w
            h == scanner.original.h
            m == IF w >= h THEN w ELSE h
        IN  /\ Img.w \in 1..1000
            /\ Img.h \in 1..1000
            /\ Img = IF m <= 1000 THEN scanner.original
                     ELSE [w |-> (w * 1000) \div m, h |-> (h * 1000) \div m]

\* Point p is a pixel of raster image.
InsideImage(p, image) ==
    /\ p[1] \in 0..(image.w - 1)
    /\ p[2] \in 0..(image.h - 1)

\* C26: whenever corners is set, the corners are pixel coordinates of the
\* working image self.image (the resized image when step 1 resized), the
\* area threshold and the fallback corners were taken from that image's
\* dimensions, and step 4 warped that working image, never the unresized
\* original.
C26_WorkingImageThroughout ==
    scanner.corners # None =>
        /\ Img = WorkingImage(scanner.original)
        /\ \A i \in 1..4 : InsideImage(scanner.corners[i], Img)
        /\ IF scanner.document_contour = None
           THEN scanner.corners = ImageCorners
           ELSE 10 * contourArea2(scanner.document_contour) > 2 * Img.w * Img.h
        /\ scanner.warped # None => scanner.warped_from = Img

\* A resized image scanned to the end, its outline found in the resized
\* image's coordinates.
C26_Witness ==
    /\ pc = "done"
    /\ scanner.original = [w |-> 2000, h |-> 1000]
    /\ Img = [w |-> 1000, h |-> 500]
    /\ scanner.document_contour # None
    /\ scanner.corners = ImageCorners
    /\ scanner.warped_from = Img

\* C27 as stated: for every input of 4 pairwise distinct points the
\* orderer's output holds each input point exactly once.
C27_OutputIsPermutation ==
    \A n \in 1..Len(calls) :
        (Len(calls[n].arg) = 4 /\ Distinct(calls[n].arg)) =>
            IsOrderOf(calls[n].ret, calls[n].arg)

\* The indices at which v is least, and at which it is greatest.
LeastAt(v) == {i \in 1..Len(v) : \A j \in 1..Len(v) : v[j] >= v[i]}

GreatestAt(v) == {i \in 1..Len(v) : \A j \in 1..Len(v) : v[j] <= v[i]}

\* The least x+y, the least y-x, the greatest x+y and the greatest y-x of
\* P are each attained by one point only, and by four different points.
ExtremesApart(P) ==
    LET A == LeastAt(SumsOf(P))
        B == LeastAt(DiffsOf(P))
        C == GreatestAt(SumsOf(P))
        D == GreatestAt(DiffsOf(P))
    IN  /\ Cardinality(A) = 1
        /\ Cardinality(B) = 1
        /\ Cardinality(C) = 1
        /\ Cardinality(D) = 1
        /\ Cardinality(A \cup B \cup C \cup D) = 4

\* C27 amended: for every input of 4 points whose minimum x+y, minimum
\* y-x, maximum x+y and maximum y-x are each attained by exactly one point,
\* and by four different points, the orderer's output holds each input
\* point exactly once.
C27_PermutationWhenExtremesApart ==
    \A n \in 1..Len(calls) :
        (Len(calls[n].arg) = 4 /\ ExtremesApart(calls[n].arg)) =>
            IsOrderOf(calls[n].ret, calls[n].arg)

\* A quadrilateral that is no rectangle, given bottom-right first.
C27_Witness ==
    /\ pc = "ordered"
    /\ calls[1].arg = <<<<2, 2>>, <<0, 1>>, <<1, 0>>, <<0, 0>>>>
    /\ ExtremesApart(calls[1].arg)
    /\ calls[1].ret = <<<<0, 0>>, <<1, 0>>, <<2, 2>>, <<0, 1>>>>

\* C28: in a batch, the results of two different input image files are
\* saved to two different output files: no result overwrites another.
C28_DistinctOutputs ==
    \A i, j \in 1..Len(batch.log) :
        (/\ i # j
         /\ batch.log[i].file # batch.log[j].file
         /\ batch.log[i].outcome = NoError
         /\ batch.log[j].outcome = NoError) =>
            batch.log[i].output # batch.log[j].output

\* contours[i] is a quadrilateral among the 5 contours of largest area.
AutoCandidate(i) == Rank(i) <= 5 /\ Len(contours[i].approx) = 4

\* C30: when none of the 5 largest contours simplifies to exactly 4
\* vertices, auto_detect_and_transform returns (None, None) and leaves
\* warped and homography_matrix as they were; otherwise it takes the first
\* such contour, whatever its area, sets both fields and returns the
\* warped raster with the ordered corners.
C30_AutoDetectFrame ==
    (calls # <<>> /\ calls[1].fn = "auto_detect_and_transform") =>
        IF \E i \in 1..Len(contours) : AutoCandidate(i)
        THEN \E i \in 1..Len(contours) :
                /\ AutoCandidate(i)
                /\ \A j \in 1..Len(contours) : Rank(j) < Rank(i) => ~AutoCandidate(j)
                /\ analyzer.homography_matrix # None
                /\ analyzer.homography_matrix.src = _order_points(contours[i].approx)
                /\ analyzer.warped # None
                /\ ret[1] = analyzer.warped
                /\ ret[2] = _order_points(contours[i].approx)
        ELSE /\ ret[1] = None
             /\ ret[2] = None
             /\ analyzer.warped = calls[1].before.warped
             /\ analyzer.homography_matrix = calls[1].before.homography_matrix

\* An analyzer that already holds a warped raster and a matrix, and whose
\* only quadrilateral is the sixth contour by area: nothing is detected
\* and both fields are kept.
C30_Witness ==
    /\ calls # <<>>
    /\ calls[1].fn = "auto_detect_and_transform"
    /\ \E i \in 1..Len(contours) : Rank(i) = 6 /\ Len(contours[i].approx) = 4
    /\ calls[1].before.warped # None
    /\ ret[1] = None
    /\ analyzer.warped = calls[1].before.warped
    /\ analyzer.homography_matrix = calls[1].before.homography_matrix

\* The call of orderer fn among the two calls made on one list.
CallOf(fn) == IF calls[1].fn = fn THEN calls[1] ELSE calls[2]

\* C29: on every list of 4 integer points _order_points of module 4 and
\* _order_corners of module 5 return the same ordered corners, and the two
\* modules derive the same output width and height from them.
C29_OrderersAgree ==
    pc = "compared" =>
        /\ CallOf("_order_points").ret = CallOf("_order_corners").ret
        /\ AutoSize(CallOf("_order_points").ret) =
              [w |-> max_width(CallOf("_order_corners").ret),
               h |-> max_height(CallOf("_order_corners").ret)]

\* Four distinct points of which two share the least x+y, ordered by both
\* modules to corners wider than high.
C29_Witness ==
    /\ pc = "compared"
    /\ calls[1].fn # calls[2].fn
    /\ Distinct(calls[1].arg)
    /\ \E i, j \in 1..4 :
          /\ i < j
          /\ IsFirstMin(SumsOf(calls[1].arg), i)
          /\ SumsOf(calls[1].arg)[j] = SumsOf(calls[1].arg)[i]
    /\ calls[1].ret = calls[2].ret
    /\ calls[1].ret # calls[1].arg
    /\ AutoSize(calls[1].ret).w > AutoSize(calls[1].ret).h

=============================================================================
